---- MODULE Spec2Model ----
(***************************************************************************)
(* CloudBeaverOnAwsStack (lib/cloud-beaver-on-aws-stack.ts).               *)
(*                                                                         *)
(* The stack is a set of resources and the references between them.  The   *)
(* model is the stack's deployment: the orchestrator creates a resource    *)
(* once everything the resource names is ready, deletes it once nothing    *)
(* that names it is left, invokes the custom resource's onCreate/onDelete  *)
(* SDK calls against the user pool, and, once the stack is up, the         *)
(* listener and the target group act on requests and health probes.        *)
(***************************************************************************)
EXTENDS Naturals, FiniteSets, Sequences, TLC

VARIABLES
    st,          \* resource -> its provisioning status
    phase,       \* the stack's status
    user,        \* tester@test.com in the user pool: "ABSENT" or "PRESENT"
    roleGrants,  \* the (action, resource) statements attached to cognitoUserRole
    albDns,      \* alb.loadBalancerDnsName, <<>> until the load balancer is up
    callbackUrls, \* the callback URLs registered with userPoolClient
    health,      \* target -> its state in targetGroup
    passes,      \* target -> its consecutive successful probes
    fails,       \* target -> its consecutive failed probes
    recent,      \* target -> its latest probe results, oldest first
    session,     \* the client's session with the listener
    req          \* the request the listener is working on

stackVars == <<st, phase, user, roleGrants, albDns, callbackUrls>>
healthVars == <<health, passes, fails, recent>>
trafficVars == <<health, passes, fails, recent, session, req>>
vars == <<st, phase, user, roleGrants, albDns, callbackUrls,
          health, passes, fails, recent, session, req>>

-----------------------------------------------------------------------------
(* The resources the constructor declares, by the name of the constant that *)
(* holds each.                                                              *)
Resources ==
    { "vpc", "adminSecret", "dbSecret", "dbInstance", "fileSystem", "accessPoint",
      "cluster", "taskDefinition", "serviceSecurityGroup", "ecsService",
      "efsGrant", "efsIngress", "dbIngress",
      "alb", "userPool", "userPoolDomain", "userPoolClient", "targetGroup",
      "listener", "cognitoUserRole", "cognitoUserPolicy", "cognitoUser" }

(* What each resource names: a construct passed in its props, an attribute  *)
(* of another resource read into its definition, or node.addDependency.     *)
vpc_deps == {}
adminSecret_deps == {}
dbSecret_deps == {}
\* vpc, credentials: Credentials.fromSecret(dbSecret)
dbInstance_deps == {"vpc", "dbSecret"}
fileSystem_deps == {"vpc"}
accessPoint_deps == {"fileSystem"}
\* {vpc}, cluster.node.addDependency(fileSystem), cluster.node.addDependency(dbInstance)
cluster_deps == {"vpc", "fileSystem", "dbInstance"}
\* (the volume configured with the file system alone, no access point)
taskDefinition_deps_noAccessPoint == {"fileSystem", "dbInstance", "dbSecret", "adminSecret"}
\* fileSystem.fileSystemId, accessPoint.accessPointId, dbInstance.dbInstanceEndpointAddress,
\* the username and password of dbSecret, the password of adminSecret
taskDefinition_deps == {"fileSystem", "accessPoint", "dbInstance", "dbSecret", "adminSecret"}
\* FargateService is given no securityGroups: it brings its own, in the vpc of the cluster
serviceSecurityGroup_deps == {"vpc"}
\* cluster, taskDefinition (with its task role and the role's policy), its security
\* group, and, as a target of targetGroup, the group and the listener that attaches
\* the group to the load balancer
ecsService_deps ==
    {"cluster", "taskDefinition", "serviceSecurityGroup", "efsGrant", "targetGroup", "listener"}
\* fileSystem.grantReadWrite(taskDefinition.taskRole)
efsGrant_deps == {"fileSystem", "taskDefinition"}
\* fileSystem.connections.allowDefaultPortFrom(ecsService): a rule of the file system's
\* security group whose peer is the service's security group
efsIngress_deps == {"fileSystem", "serviceSecurityGroup"}
\* dbInstance.connections.allowDefaultPortFrom(ecsService)
dbIngress_deps == {"dbInstance", "serviceSecurityGroup"}
alb_deps == {"vpc"}
userPool_deps == {}
userPoolDomain_deps == {"userPool"}
\* (the callback URL written as a literal instead of read from alb)
userPoolClient_deps_literalUrl == {"userPool"}
\* userPool.addClient, callbackUrls: alb.loadBalancerDnsName
userPoolClient_deps == {"userPool", "alb"}
targetGroup_deps == {"vpc"}
\* (the authenticate action given the pool and the client, not the domain)
listener_deps_noDomain == {"alb", "userPool", "userPoolClient", "targetGroup"}
\* alb.addListener, AuthenticateCognitoAction{userPool, userPoolClient, userPoolDomain},
\* ListenerAction.forward([targetGroup])
listener_deps == {"alb", "userPool", "userPoolClient", "userPoolDomain", "targetGroup"}
\* resources: [userPool.userPoolArn]
cognitoUserRole_deps == {"userPool"}
\* AwsCustomResourcePolicy.fromSdkCalls, attached to role: cognitoUserRole
cognitoUserPolicy_deps == {"cognitoUserRole"}
\* (the pool's id written as a literal, the role left to the construct's default)
cognitoUser_deps_literalPool == {}
\* UserPoolId: userPool.userPoolId, role: cognitoUserRole, policy
cognitoUser_deps == {"userPool", "cognitoUserRole", "cognitoUserPolicy"}

Deps(r) ==
    CASE r = "vpc" -> vpc_deps
      [] r = "adminSecret" -> adminSecret_deps
      [] r = "dbSecret" -> dbSecret_deps
      [] r = "dbInstance" -> dbInstance_deps
      [] r = "fileSystem" -> fileSystem_deps
      [] r = "accessPoint" -> accessPoint_deps
      [] r = "cluster" -> cluster_deps
      [] r = "taskDefinition" -> taskDefinition_deps
      [] r = "serviceSecurityGroup" -> serviceSecurityGroup_deps
      [] r = "ecsService" -> ecsService_deps
      [] r = "efsGrant" -> efsGrant_deps
      [] r = "efsIngress" -> efsIngress_deps
      [] r = "dbIngress" -> dbIngress_deps
      [] r = "alb" -> alb_deps
      [] r = "userPool" -> userPool_deps
      [] r = "userPoolDomain" -> userPoolDomain_deps
      [] r = "userPoolClient" -> userPoolClient_deps
      [] r = "targetGroup" -> targetGroup_deps
      [] r = "listener" -> listener_deps
      [] r = "cognitoUserRole" -> cognitoUserRole_deps
      [] r = "cognitoUserPolicy" -> cognitoUserPolicy_deps
      [] r = "cognitoUser" -> cognitoUser_deps

DepsOf == [r \in Resources |-> Deps(r)]
DependentsOf == [r \in Resources |-> { d \in Resources : r \in DepsOf[d] }]

-----------------------------------------------------------------------------
(* The user pool's directory, as the SDK calls of the custom resource see   *)
(* it.  Each call is a pair: the error the service answers with ("none"     *)
(* when the call succeeds) and the directory entry the call leaves.         *)
\* onCreate: action 'adminCreateUser', Username 'tester@test.com'
adminCreateUser(u) ==
    IF u = "PRESENT"
    THEN [error |-> "UsernameExistsException", user |-> u]
    ELSE [error |-> "none", user |-> "PRESENT"]

\* onDelete: action 'adminDeleteUser', Username 'tester@test.com'
adminDeleteUser(u) ==
    IF u = "ABSENT"
    THEN [error |-> "UserNotFoundException", user |-> u]
    ELSE [error |-> "none", user |-> "ABSENT"]

(* The error codes each call of the custom resource is told to ignore       *)
(* (ignoreErrorCodesMatching): onCreate and onDelete set none.              *)
onCreate_ignoreErrorCodesMatching == {}
onDelete_ignoreErrorCodesMatching == {}

(* The custom resource's answer to the orchestrator for one call.           *)
Response(result, ignored) ==
    IF result.error = "none" \/ result.error \in ignored THEN "SUCCESS" ELSE "FAILED"

-----------------------------------------------------------------------------
(* The statements on cognitoUserRole, as (action, resource) pairs.          *)
CognitoUserPolicy_statements ==
    { [action |-> a, resource |-> "userPool"] :
        a \in { "cognito-idp:AdminCreateUser", "cognito-idp:AdminDeleteUser",
                "cognito-idp:AdminSetUserPassword", "cognito-idp:AdminConfirmSignUp",
                "cognito-idp:AdminUpdateUserAttributes" } }

\* managedPolicies: service-role/AWSLambdaBasicExecutionRole
AWSLambdaBasicExecutionRole_statements ==
    { [action |-> a, resource |-> "*"] :
        a \in { "logs:CreateLogGroup", "logs:CreateLogStream", "logs:PutLogEvents" } }

\* policy: AwsCustomResourcePolicy.fromSdkCalls({resources: ANY_RESOURCE}): one
\* statement per SDK call of the custom resource, on the resources given
fromSdkCalls_statements ==
    { [action |-> a, resource |-> "*"] :
        a \in { "cognito-idp:AdminCreateUser", "cognito-idp:AdminDeleteUser" } }

GrantsOf(r) ==
    CASE r = "cognitoUserRole" ->
            CognitoUserPolicy_statements \cup AWSLambdaBasicExecutionRole_statements
      [] r = "cognitoUserPolicy" -> fromSdkCalls_statements
      [] OTHER -> {}

-----------------------------------------------------------------------------
(* Names and addresses, as sequences of characters.                         *)
toLowerCase(str) ==
    [i \in 1..Len(str) |->
        CASE str[i] = "A" -> "a"
          [] str[i] = "B" -> "b"
          [] str[i] = "C" -> "c"
          [] OTHER -> str[i]]

(* cdk.Names.uniqueResourceName(this, {maxLength: 24}): the stack's name    *)
(* and a hash, in the case they are written in.                             *)
uniqueResourceNames == { <<"C", "b", "A", "1">>, <<"c", "b", "2">> }

albName(unique) == toLowerCase(unique)

\* the address the load balancer is given carries loadBalancerName as written
loadBalancerDnsName(name) == name \o <<".elb.amazonaws.com">>

\* callbackUrls: [ `https://${alb.loadBalancerDnsName}/oauth2/idpresponse` ]
callbackUrl(dns) == <<"https://">> \o dns \o <<"/oauth2/idpresponse">>

-----------------------------------------------------------------------------
(* targetGroup: the targets the service registers, and their health.        *)
MaxTargets == 2
Targets == 1..MaxTargets

healthyThresholdCount == 2
unhealthyThresholdCount == 2

(* The probe results kept for each target: the latest Window of them.       *)
Window == 2
Latest(results) ==
    IF Len(results) <= Window THEN results
    ELSE SubSeq(results, Len(results) - Window + 1, Len(results))

NoRequest == [pc |-> "idle", step |-> 0, session |-> "none", target |-> 0]

TrafficIdle ==
    /\ health = [t \in Targets |-> "unregistered"]
    /\ passes = [t \in Targets |-> 0]
    /\ fails = [t \in Targets |-> 0]
    /\ recent = [t \in Targets |-> <<>>]
    /\ session = "none"
    /\ req = NoRequest

\* (a probe that decides alone, whatever came before it)
AfterProbe_single(h, p, f, ok) ==
    IF ok THEN [health |-> "healthy", passes |-> 1, fails |-> 0]
    ELSE [health |-> "unhealthy", passes |-> 0, fails |-> 1]

(* One probe of a target changes its state when the run of equal results    *)
(* reaches the threshold.                                                   *)
AfterProbe(h, p, f, ok) ==
    IF ok
    THEN [health |-> IF p + 1 >= healthyThresholdCount THEN "healthy" ELSE h,
          passes |-> IF p + 1 >= healthyThresholdCount THEN healthyThresholdCount ELSE p + 1,
          fails  |-> 0]
    ELSE [health |-> IF f + 1 >= unhealthyThresholdCount THEN "unhealthy" ELSE h,
          passes |-> 0,
          fails  |-> IF f + 1 >= unhealthyThresholdCount THEN unhealthyThresholdCount ELSE f + 1]

(* The targets a forward action may pick: the healthy ones when there are   *)
(* any; otherwise, when registered targets are unhealthy, those (the load   *)
(* balancer fails open).  A target still in its initial checks takes no     *)
(* requests, and with no target to pick there is nothing to forward to.     *)
Registered(h) == { t \in Targets : h[t] # "unregistered" }
Healthy(h) == { t \in Targets : h[t] = "healthy" }
Unhealthy(h) == { t \in Targets : h[t] = "unhealthy" }
Routable(h) == IF Healthy(h) # {} THEN Healthy(h) ELSE Unhealthy(h)

\* (the listener forwarding as its default action)
listener_defaultAction_forward == <<"forward">>

(* listener: defaultAction AuthenticateCognitoAction{..., next: forward}.   *)
listener_defaultAction == <<"authenticate-cognito", "forward">>

\* the redirect URI the listener names to the hosted login: the host as the
\* client sent it, which is the address in lower case
redirectUri(dns) == callbackUrl(toLowerCase(dns))

-----------------------------------------------------------------------------
StackInit ==
    /\ st = [r \in Resources |-> "absent"]
    /\ phase = "CREATE_IN_PROGRESS"
    /\ user = "ABSENT"
    /\ roleGrants = {}
    /\ albDns = <<>>
    /\ callbackUrls = {}

Gone(r) == st[r] \in {"absent", "deleted"}
AllGone(s) == \A x \in Resources : s[x] \in {"absent", "deleted"}
AllReady(s) == \A x \in Resources : s[x] = "ready"

(* The orchestrator starts the creation of a resource when everything the   *)
(* resource names is ready; the attributes the resource reads are resolved  *)
(* at that point.                                                           *)
StartCreate(r) ==
    /\ phase = "CREATE_IN_PROGRESS"
    /\ st[r] = "absent"
    /\ \A d \in DepsOf[r] : st[d] = "ready"
    /\ st' = [st EXCEPT ![r] = "creating"]
    /\ callbackUrls' = IF r = "userPoolClient" THEN {callbackUrl(albDns)} ELSE callbackUrls
    /\ UNCHANGED <<phase, user, roleGrants, albDns>>
    /\ UNCHANGED trafficVars

(* A creation in flight ends; one that was in flight when the run was       *)
(* stopped still ends, and is deleted afterwards.                           *)
FinishCreate(r) ==
    /\ phase \in {"CREATE_IN_PROGRESS", "ROLLBACK_IN_PROGRESS", "DELETE_IN_PROGRESS"}
    /\ r # "cognitoUser"
    /\ st[r] = "creating"
    /\ st' = [st EXCEPT ![r] = "ready"]
    /\ roleGrants' = roleGrants \cup GrantsOf(r)
    /\ IF r = "alb"
       THEN \E unique \in uniqueResourceNames :
                albDns' = loadBalancerDnsName(albName(unique))
       ELSE albDns' = albDns
    /\ phase' = IF phase = "CREATE_IN_PROGRESS" /\ AllReady(st')
                THEN "CREATE_COMPLETE" ELSE phase
    /\ UNCHANGED <<user, callbackUrls>>
    /\ UNCHANGED trafficVars

(* cognitoUser, onCreate: the custom resource calls adminCreateUser and     *)
(* answers the orchestrator; a FAILED answer fails the run and starts the   *)
(* rollback.                                                                *)
OnCreate ==
    /\ phase \in {"CREATE_IN_PROGRESS", "ROLLBACK_IN_PROGRESS", "DELETE_IN_PROGRESS"}
    /\ st["cognitoUser"] = "creating"
    /\ LET result == adminCreateUser(user)
           answer == Response(result, onCreate_ignoreErrorCodesMatching)
       IN /\ user' = result.user
          /\ st' = [st EXCEPT !["cognitoUser"] =
                        IF answer = "SUCCESS" THEN "ready" ELSE "failed"]
          /\ phase' = IF phase # "CREATE_IN_PROGRESS" THEN phase
                      ELSE IF answer = "FAILED" THEN "ROLLBACK_IN_PROGRESS"
                      ELSE IF AllReady(st') THEN "CREATE_COMPLETE"
                      ELSE phase
    /\ UNCHANGED <<roleGrants, albDns, callbackUrls>>
    /\ UNCHANGED trafficVars

(* The operator deletes the stack, or deletes it again after a failed       *)
(* delete; the resources whose delete failed are tried again.               *)
DeleteStack ==
    /\ phase \in {"CREATE_COMPLETE", "DELETE_FAILED", "ROLLBACK_FAILED"}
    /\ phase' = "DELETE_IN_PROGRESS"
    /\ st' = [r \in Resources |-> IF st[r] = "delete_failed" THEN "ready" ELSE st[r]]
    /\ UNCHANGED <<user, roleGrants, albDns, callbackUrls>>
    /\ UNCHANGED trafficVars

(* The operator stops a run in flight: what was created is deleted.         *)
CancelRun ==
    /\ phase = "CREATE_IN_PROGRESS"
    /\ phase' = "DELETE_IN_PROGRESS"
    /\ UNCHANGED <<st, user, roleGrants, albDns, callbackUrls>>
    /\ UNCHANGED trafficVars

Tearing == phase \in {"DELETE_IN_PROGRESS", "ROLLBACK_IN_PROGRESS"}

(* The orchestrator starts the deletion of a resource when nothing that     *)
(* names it is left.  A custom resource whose creation failed gets its      *)
(* delete request too.                                                      *)
StartDelete(r) ==
    /\ Tearing
    /\ st[r] \in {"ready", "failed"}
    /\ \A d \in DependentsOf[r] : Gone(d)
    /\ st' = [st EXCEPT ![r] = "deleting"]
    /\ UNCHANGED <<phase, user, roleGrants, albDns, callbackUrls>>
    /\ UNCHANGED trafficVars

EndPhase(p, s) ==
    IF AllGone(s)
    THEN (IF p = "DELETE_IN_PROGRESS" THEN "DELETE_COMPLETE" ELSE "ROLLBACK_COMPLETE")
    ELSE p

(* Deleting the user pool (removalPolicy DESTROY) deletes its directory.    *)
FinishDelete(r) ==
    /\ Tearing
    /\ r # "cognitoUser"
    /\ st[r] = "deleting"
    /\ st' = [st EXCEPT ![r] = "deleted"]
    /\ roleGrants' = roleGrants \ GrantsOf(r)
    /\ user' = IF r = "userPool" THEN "ABSENT" ELSE user
    /\ albDns' = IF r = "alb" THEN <<>> ELSE albDns
    /\ callbackUrls' = IF r = "userPoolClient" THEN {} ELSE callbackUrls
    /\ phase' = EndPhase(phase, st')
    /\ UNCHANGED trafficVars

(* cognitoUser, onDelete: the custom resource calls adminDeleteUser and     *)
(* answers the orchestrator; a FAILED answer fails the teardown.            *)
OnDelete ==
    /\ Tearing
    /\ st["cognitoUser"] = "deleting"
    /\ LET result == adminDeleteUser(user)
           answer == Response(result, onDelete_ignoreErrorCodesMatching)
       IN /\ user' = result.user
          /\ st' = [st EXCEPT !["cognitoUser"] =
                        IF answer = "SUCCESS" THEN "deleted" ELSE "delete_failed"]
          /\ phase' = IF answer = "FAILED"
                      THEN (IF phase = "DELETE_IN_PROGRESS"
                            THEN "DELETE_FAILED" ELSE "ROLLBACK_FAILED")
                      ELSE EndPhase(phase, st')
    /\ UNCHANGED <<roleGrants, albDns, callbackUrls>>
    /\ UNCHANGED trafficVars

(* Out of band: an administrator of the pool adds or removes the user.      *)
PoolExists == st["userPool"] \in {"ready", "deleting"}

OperatorCreatesUser ==
    /\ PoolExists
    /\ user = "ABSENT"
    /\ user' = "PRESENT"
    /\ UNCHANGED <<st, phase, roleGrants, albDns, callbackUrls>>
    /\ UNCHANGED trafficVars

OperatorDeletesUser ==
    /\ PoolExists
    /\ user = "PRESENT"
    /\ user' = "ABSENT"
    /\ UNCHANGED <<st, phase, roleGrants, albDns, callbackUrls>>
    /\ UNCHANGED trafficVars

-----------------------------------------------------------------------------
(* Spec: one deployment of the whole stack, and its deletion once it is up, *)
(* in an account where nobody else touches the user pool.                   *)
Init == StackInit /\ TrafficIdle

Next ==
    \/ \E r \in Resources : StartCreate(r)
    \/ \E r \in Resources : FinishCreate(r)
    \/ OnCreate
    \/ DeleteStack
    \/ \E r \in Resources : StartDelete(r)
    \/ \E r \in Resources : FinishDelete(r)
    \/ OnDelete

Spec == Init /\ [][Next]_vars

(* SpecReconciler: the runs in which the identity resources and the entry   *)
(* point are the ones that get scheduled, with the run stopped or failing   *)
(* at any point, teardown tried again after a failure, and the pool's       *)
(* administrator adding and removing the user out of band.                  *)
RECURSIVE Closure(_)
Closure(S) ==
    LET T == S \cup UNION { DepsOf[r] : r \in S }
    IN IF T = S THEN S ELSE Closure(T)

ReconcilerScope == Closure({"cognitoUser", "listener"})

NextReconciler ==
    \/ \E r \in ReconcilerScope : StartCreate(r)
    \/ \E r \in Resources : FinishCreate(r)
    \/ OnCreate
    \/ CancelRun
    \/ DeleteStack
    \/ \E r \in Resources : StartDelete(r)
    \/ \E r \in Resources : FinishDelete(r)
    \/ OnDelete
    \/ OperatorCreatesUser
    \/ OperatorDeletesUser

SpecReconciler == Init /\ [][NextReconciler]_vars
-----------------------------------------------------------------------------
(* SpecTraffic: the deployed stack at work.  The service's tasks register   *)
(* with targetGroup and are probed; a client sends requests to the          *)
(* listener on port 443.                                                    *)
AllGrants ==
    CognitoUserPolicy_statements \cup AWSLambdaBasicExecutionRole_statements
        \cup fromSdkCalls_statements

Deployed ==
    /\ AllReady(st)
    /\ phase = "CREATE_COMPLETE"
    /\ user = "PRESENT"
    /\ roleGrants = AllGrants
    /\ \E unique \in uniqueResourceNames : albDns = loadBalancerDnsName(albName(unique))
    /\ callbackUrls = {callbackUrl(albDns)}

TrafficInit ==
    /\ st = [r \in Resources |-> "ready"]
    /\ Deployed
    /\ TrafficIdle

\* targets: [ecsService]: a task of the service registers with the group
Register(t) ==
    /\ st["ecsService"] = "ready" /\ st["targetGroup"] = "ready"
    /\ health[t] = "unregistered"
    /\ health' = [health EXCEPT ![t] = "initial"]
    /\ passes' = [passes EXCEPT ![t] = 0]
    /\ fails' = [fails EXCEPT ![t] = 0]
    /\ recent' = [recent EXCEPT ![t] = <<>>]
    /\ UNCHANGED <<session, req>>
    /\ UNCHANGED stackVars

\* a task stops: its target leaves the group
Deregister(t) ==
    /\ health[t] # "unregistered"
    /\ health' = [health EXCEPT ![t] = "unregistered"]
    /\ passes' = [passes EXCEPT ![t] = 0]
    /\ fails' = [fails EXCEPT ![t] = 0]
    /\ recent' = [recent EXCEPT ![t] = <<>>]
    /\ UNCHANGED <<session, req>>
    /\ UNCHANGED stackVars

\* healthCheck: one probe of a registered target, passed or failed
Probe(t, ok) ==
    /\ health[t] # "unregistered"
    /\ LET after == AfterProbe(health[t], passes[t], fails[t], ok)
       IN /\ health' = [health EXCEPT ![t] = after.health]
          /\ passes' = [passes EXCEPT ![t] = after.passes]
          /\ fails' = [fails EXCEPT ![t] = after.fails]
    /\ recent' = [recent EXCEPT ![t] = Latest(Append(recent[t], ok))]
    /\ UNCHANGED <<session, req>>
    /\ UNCHANGED stackVars

\* a request reaches the listener with the session the client holds
Arrive ==
    /\ st["listener"] = "ready"
    /\ req.pc = "idle"
    /\ req' = [pc |-> "listener", step |-> 1, session |-> session, target |-> 0]
    /\ UNCHANGED <<healthVars, session>>
    /\ UNCHANGED stackVars

CurrentAction ==
    IF req.pc = "listener" /\ req.step \in 1..Len(listener_defaultAction)
    THEN listener_defaultAction[req.step] ELSE "none"

\* AuthenticateCognitoAction: a valid session goes on to the next action,
\* anything else is redirected to the hosted login of userPoolDomain
AuthenticateCognito ==
    /\ CurrentAction = "authenticate-cognito"
    /\ req' = IF req.session = "valid"
              THEN [req EXCEPT !.step = req.step + 1]
              ELSE [req EXCEPT !.pc = "redirected"]
    /\ UNCHANGED <<healthVars, session>>
    /\ UNCHANGED stackVars

\* ListenerAction.forward([targetGroup])
Forward ==
    /\ CurrentAction = "forward"
    /\ IF Routable(health) = {}
       THEN req' = [req EXCEPT !.pc = "unavailable"]
       ELSE \E t \in Routable(health) : req' = [req EXCEPT !.pc = "forwarded", !.target = t]
    /\ UNCHANGED <<healthVars, session>>
    /\ UNCHANGED stackVars

\* the hosted login: the user of the pool signs in and is sent back to the
\* redirect URI, which the client must have registered as a callback URL
Login ==
    /\ req.pc = "redirected"
    /\ session' = IF user = "PRESENT" /\ redirectUri(albDns) \in callbackUrls
                  THEN "valid" ELSE "none"
    /\ req' = NoRequest
    /\ UNCHANGED healthVars
    /\ UNCHANGED stackVars

\* the response goes back to the client
Respond ==
    /\ req.pc \in {"forwarded", "unavailable"}
    /\ req' = NoRequest
    /\ UNCHANGED <<healthVars, session>>
    /\ UNCHANGED stackVars

\* sessionTimeout: cdk.Duration.minutes(30)
SessionExpires ==
    /\ session = "valid"
    /\ session' = "expired"
    /\ UNCHANGED <<healthVars, req>>
    /\ UNCHANGED stackVars

NextTraffic ==
    \/ \E t \in Targets : Register(t)
    \/ \E t \in Targets : Deregister(t)
    \/ \E t \in Targets, ok \in BOOLEAN : Probe(t, ok)
    \/ Arrive
    \/ AuthenticateCognito
    \/ Forward
    \/ Login
    \/ Respond
    \/ SessionExpires
    \/ OperatorCreatesUser
    \/ OperatorDeletesUser

SpecTraffic == TrafficInit /\ [][NextTraffic]_vars
-----------------------------------------------------------------------------
(* Properties.                                                              *)
Started(r) == st[r] # "absent"
Reached(r) == st[r] \in {"ready", "deleting", "deleted", "delete_failed"}
InFlight(r) == st[r] \in {"creating", "deleting"}

Ancestors(r) == IF DepsOf[r] = {} THEN {} ELSE Closure(DepsOf[r])
Acyclic == \A r \in Resources : r \notin Ancestors(r)

OnCreateAnswers == st["cognitoUser"] = "creating" /\ st'["cognitoUser"] # "creating"
OnDeleteAnswers == st["cognitoUser"] = "deleting" /\ st'["cognitoUser"] # "deleting"

(* C1: when onCreate runs while the user is already PRESENT, the call is    *)
(* taken as a success: the resource gets ready, the run does not fail, and  *)
(* the one user is there afterwards.                                        *)
C1_CreateIdempotent ==
    [][ (OnCreateAnswers /\ user = "PRESENT")
            => /\ st'["cognitoUser"] = "ready"
               /\ phase' \notin {"ROLLBACK_IN_PROGRESS", "ROLLBACK_FAILED"}
               /\ user' = "PRESENT" ]_vars

(* C2: when onDelete runs while the user is already ABSENT, the delete      *)
(* reports success, the teardown goes on, and the user stays ABSENT.        *)
C2_DeleteToleratesAbsence ==
    [][ (OnDeleteAnswers /\ user = "ABSENT")
            => /\ st'["cognitoUser"] = "deleted"
               /\ phase' \notin {"DELETE_FAILED", "ROLLBACK_FAILED"}
               /\ user' = "ABSENT" ]_vars

(* C3: onCreate and onDelete are in flight only while the user pool is      *)
(* ready, and the pool's own deletion starts only once the custom resource  *)
(* is gone.                                                                 *)
C3_ReconcilerWithinPool ==
    /\ InFlight("cognitoUser") => st["userPool"] = "ready"
    /\ Started("cognitoUser") => Reached("userPool")
    /\ st["userPool"] \in {"deleting", "deleted"} => Gone("cognitoUser")

C3_Witness ==
    /\ st["cognitoUser"] = "deleting"
    /\ st["userPool"] = "ready"
    /\ user = "PRESENT"

Prerequisites ==
    {"vpc", "dbInstance", "fileSystem", "accessPoint", "adminSecret", "dbSecret"}

EveryDependencyReached ==
    \A r \in Resources : Started(r) => \A d \in DepsOf[r] : Reached(d)

(* C4 as claimed: every started resource has its dependencies ready, and    *)
(* the cluster, the task definition and the service start only after the    *)
(* network, the database instance, the file system, its access point and    *)
(* both secrets are ready.                                                  *)
C4_ComputeAfterAllPrerequisites ==
    /\ EveryDependencyReached
    /\ \A r \in {"cluster", "taskDefinition", "ecsService"} :
           Started(r) => \A d \in Prerequisites : Reached(d)

(* C4 as amended: every started resource has its dependencies ready; the    *)
(* task definition and the service start only after all six prerequisites,  *)
(* the cluster only after the network, the database instance with its       *)
(* secret, and the file system.                                             *)
C4_CreateOrder ==
    /\ EveryDependencyReached
    /\ \A r \in {"taskDefinition", "ecsService"} :
           Started(r) => \A d \in Prerequisites : Reached(d)
    /\ Started("cluster") =>
           \A d \in {"vpc", "dbInstance", "dbSecret", "fileSystem"} : Reached(d)

C4_Witness ==
    /\ st["cluster"] = "ready"
    /\ st["taskDefinition"] = "creating"
    /\ \A d \in Prerequisites : st[d] = "ready"

(* C5 as claimed: onCreate starts after the user pool is ready, and the     *)
(* listener starts only after onCreate has made the user.                   *)
C5_UserBeforeListener ==
    /\ Started("cognitoUser") => Reached("userPool")
    /\ Started("listener") => Reached("cognitoUser")

(* C5 as amended: onCreate starts after the user pool is ready, and the     *)
(* listener starts after the pool, its domain and its client are ready.     *)
C5_AfterPool ==
    /\ Started("cognitoUser") => Reached("userPool")
    /\ Started("listener") =>
           \A d \in {"userPool", "userPoolDomain", "userPoolClient"} : Reached(d)

C5_Witness ==
    /\ st["listener"] = "ready"
    /\ st["cognitoUser"] = "creating"
    /\ user = "ABSENT"

IdentityActions ==
    { "cognito-idp:AdminCreateUser", "cognito-idp:AdminDeleteUser",
      "cognito-idp:AdminSetUserPassword", "cognito-idp:AdminConfirmSignUp",
      "cognito-idp:AdminUpdateUserAttributes" }

IsIdentityAction(a) == a \in IdentityActions \/ a \in {"cognito-idp:*", "*"}

(* C6: every statement on cognitoUserRole that grants an identity operation *)
(* grants one of the five admin operations, on the one user pool.           *)
C6_LeastPrivilege ==
    \A g \in roleGrants :
        IsIdentityAction(g.action) =>
            g.action \in IdentityActions /\ g.resource = "userPool"

(* C7: a request is forwarded only with a valid session; one with a missing *)
(* or expired session is redirected and reaches no target; no action of the *)
(* listener forwards before an authenticate action.                         *)
C7_AuthenticateBeforeForward ==
    /\ req.pc = "forwarded" => req.session = "valid" /\ req.target \in Targets
    /\ (req.pc # "idle" /\ req.session # "valid") =>
           req.pc \in {"listener", "redirected"} /\ req.step = 1 /\ req.target = 0
    /\ \A i \in 1..Len(listener_defaultAction) :
           listener_defaultAction[i] = "forward" =>
               \E j \in 1..(i - 1) : listener_defaultAction[j] = "authenticate-cognito"

C7_Witness ==
    /\ req.pc = "forwarded"
    /\ req.session = "valid"
    /\ health[req.target] = "healthy"

(* C8: the client's callback URL is the load balancer's address; the client *)
(* starts once the load balancer is ready and the listener once the client  *)
(* is; the stack's graph has no cycle.                                      *)
C8_ForwardReference ==
    /\ Acyclic
    /\ Started("userPoolClient") => Reached("alb")
    /\ Started("listener") => Reached("userPoolClient")
    /\ (st["userPoolClient"] \in {"creating", "ready"} /\ st["alb"] = "ready") =>
           callbackUrls = {callbackUrl(albDns)}

C8_Witness ==
    /\ phase = "CREATE_COMPLETE"
    /\ AllReady(st)
    /\ callbackUrls = {callbackUrl(albDns)}
    /\ albDns # <<>>

LastTwo(results) == SubSeq(results, Len(results) - 1, Len(results))

HealthGated ==
    \A t \in Targets :
        /\ (health[t] # "healthy" /\ health'[t] = "healthy") =>
               Len(recent'[t]) >= 2 /\ LastTwo(recent'[t]) = <<TRUE, TRUE>>
        /\ (health[t] = "healthy" /\ health'[t] = "unhealthy") =>
               Len(recent'[t]) >= 2 /\ LastTwo(recent'[t]) = <<FALSE, FALSE>>
        /\ (health[t] = "healthy" /\ recent'[t] # recent[t] /\ Len(recent'[t]) >= 2
                /\ LastTwo(recent'[t]) = <<FALSE, FALSE>>) =>
               health'[t] = "unhealthy"
        /\ (health[t] = "unhealthy" /\ recent'[t] # recent[t] /\ Len(recent'[t]) >= 2
                /\ LastTwo(recent'[t]) = <<TRUE, TRUE>>) =>
               health'[t] = "healthy"

ForwardDecides == req.pc = "listener" /\ req'.pc \in {"forwarded", "unavailable"}

====
